---- MODULE Spec2Model ----
(***************************************************************************)
(* A model of the portfolio page script (main script, src/unnamed/part_001)*)
(* and its content tables (src/data.js).                                   *)
(*                                                                         *)
(* The page is single threaded: the module script runs to completion at    *)
(* load, then event listeners and frame callbacks run one at a time.       *)
(* Every action below is one such run.                                     *)
(*                                                                         *)
(* The specifications share the variables:                                 *)
(*   Spec          the page: load, theme toggle, card clicks               *)
(*   SpecScramble  one TextScramble instance, one setText call, any text   *)
(*   SpecRace      one TextScramble instance, setText calls at any moment  *)
(*   SpecRaceFair  SpecRace with frame callbacks that eventually run       *)
(*   SpecNetwork   the particle canvas: frames and window resizes          *)
(*   SpecSetText   one TextScramble instance, the setText call alone       *)
(*   SpecCanvasTheme  the particle canvas with the theme toggle            *)
(*   SpecCursor    the cursor follower: pointer moves and frames           *)
(***************************************************************************)
EXTENDS Integers, Sequences, FiniteSets, TLC

VARIABLES
    pc,          \* "init" before the module script has run, "loaded" after
    dom,         \* which optional elements the document holds
    page,        \* theme, icons, containers, started loops (record, see InitPage)
    lastClick,   \* the last card click and the windows it opened
    themeLog,    \* history: <<theme, persisted value>> after load and after each toggle
    \* one TextScramble instance
    el,           \* this.el.innerHTML, a sequence of markup units (see Raw, Dud)
    queue,        \* this.queue
    frame,        \* this.frame
    frameRequest, \* this.frameRequest (NoHandle while undefined)
    rafPending,   \* frame callbacks of this.update that are scheduled and not yet run
    calls,        \* number of setText calls so far; call k returned promise k
    resolveOf,    \* the promise this.resolve settles (0 while undefined)
    resolveCalls, \* per promise, how often its resolve function was called
    lastText,     \* history: the argument of the last setText call
    updates,      \* history: update() runs since the last setText call
    cancelled,    \* history: scheduled callbacks removed by cancelAnimationFrame
    shown,        \* history: the frame of the last update() run and what each slot showed
    \* the particle canvas
    canvasSize,   \* width and height
    particles,    \* the particles array
    netFrames,    \* history: runs of animateNetwork so far
    examined,     \* history: the pairs the last run examined, in order
    discs,        \* history: the discs the last run drew, in order
    resized,      \* history: a resize event has run since the particles were created
    \* the cursor follower
    follower,     \* mouseX, mouseY, cursorX, cursorY, isCursorInit, opacity
    cursorFrames, \* history: runs of animateCursor so far
    pointerMoves  \* history: mousemove events so far

pageVars == <<pc, dom, page, lastClick, themeLog>>

scrambleVars == <<el, queue, frame, frameRequest, rafPending, calls, resolveOf,
                  resolveCalls, lastText, updates, cancelled, shown>>

netVars == <<canvasSize, particles, netFrames, examined, discs, resized>>

cursorVars == <<follower, cursorFrames, pointerMoves>>

vars == <<pc, dom, page, lastClick, themeLog,
          el, queue, frame, frameRequest, rafPending, calls, resolveOf,
          resolveCalls, lastText, updates, cancelled, shown,
          canvasSize, particles, netFrames, examined, discs, resized,
          follower, cursorFrames, pointerMoves>>

----------------------------------------------------------------------------
(* Bounds of the model *)

\* toggle clicks explored after load
MaxToggles == 3

\* longest text an element starts with or setText is given
MaxLen == 2

\* setText calls explored on one instance
MaxSetText == 2

\* particles on the canvas (the page creates 60)
NumParticles == 3

\* animation frames of the canvas explored
MaxNetFrames == 3

----------------------------------------------------------------------------
(* Values *)

\* localStorage.getItem returns null for a key that is absent
Absent == "<absent>"

\* no click has happened yet
NoClick == [table |-> "none", index |-> 0, target |-> "none",
            viaListener |-> <<>>, viaAnchor |-> <<>>]

\* Values the key 'theme' may hold when the page loads: nothing, what an
\* earlier session of this page wrote, or what something else on the same
\* origin wrote (an unrecognized name, the empty string).
StoredThemes == {Absent, "light", "dark", "system", ""}

\* JavaScript's a || b on strings and null: b when a is null or ""
OrElse(a, b) == IF a = Absent \/ a = "" THEN b ELSE a

----------------------------------------------------------------------------
(* Content tables, src/data.js (title/name and link of each record) *)

projects == <<
    [title |-> "go-utcp", link |-> "https://github.com/universal-tool-calling-protocol/go-utcp"],
    [title |-> "Thunder", link |-> "https://github.com/Protocol-Lattice/thunder"],
    [title |-> "GoEventBus", link |-> "https://github.com/Protocol-Lattice/GoEventBus"],
    [title |-> "go-agent", link |-> "https://github.com/Protocol-Lattice/go-agent"],
    [title |-> "lattice-code", link |-> "https://github.com/Protocol-Lattice/lattice-code"],
    [title |-> "memory-bank-mcp", link |-> "https://github.com/Protocol-Lattice/memory-bank-mcp"],
    [title |-> "grpc-graphql-gateway", link |-> "https://github.com/Raezil/grpc-graphql-gateway"],
    [title |-> "vibe", link |-> "https://github.com/Raezil/vibe"] >>

organizations == <<
    [title |-> "Universal Tool Calling Protocol", link |-> "https://github.com/universal-tool-calling-protocol"],
    [title |-> "Protocol Lattice", link |-> "https://github.com/Protocol-Lattice"] >>

----------------------------------------------------------------------------
(* The document before the script runs *)

\* the elements the script looks up and tests for presence
DomChoices == [themeToggle : BOOLEAN, projectsContainer : BOOLEAN,
               orgContainer : BOOLEAN, cursor : BOOLEAN, canvas : BOOLEAN,
               subtitle : BOOLEAN]

\* a child node the static markup may have left in a container
Placeholder == [className |-> "placeholder", title |-> "", href |-> "",
                onclick |-> FALSE]

\* what a container may hold before rendering
PriorChildren == {<<>>, <<Placeholder>>, <<Placeholder, Placeholder>>}

InitPage(stored, pch, och) ==
    [storage |-> stored,          \* localStorage 'theme'
     dataTheme |-> Absent,        \* <html data-theme>
     sunDisplay |-> "",           \* .sun-icon style.display
     moonDisplay |-> "",          \* .moon-icon style.display
     toggleListener |-> FALSE,    \* click listener on #theme-toggle
     projectsChildren |-> pch,    \* children of #projects-container
     orgChildren |-> och,         \* children of .org-container
     created |-> [projects |-> 0, organizations |-> 0],  \* createElement calls
     removed |-> [projects |-> 0, organizations |-> 0],  \* children dropped by innerHTML = ''
     cursorLoop |-> FALSE,        \* animateCursor running
     canvasTheme |-> Absent,      \* let canvasTheme
     updateCanvasThemeSet |-> FALSE,  \* window.updateCanvasTheme
     networkLoop |-> FALSE,       \* animateNetwork running
     scrambleTimer |-> FALSE,     \* setTimeout(... setText ..., 1500) armed
     threw |-> FALSE]             \* the module script ended in an exception

----------------------------------------------------------------------------
(* Theme controller *)

\* updateThemeIcon(theme)
UpdateThemeIcon(s, theme) ==
    IF theme = "light"
    THEN [s EXCEPT !.sunDisplay = "none", !.moonDisplay = "block"]
    ELSE [s EXCEPT !.sunDisplay = "block", !.moonDisplay = "none"]

\* variant: the load also writes the theme back to storage
ThemeSetupPersisting(s) ==
    LET currentTheme == OrElse(s.storage, "dark")
    IN  UpdateThemeIcon([s EXCEPT !.dataTheme = currentTheme,
                                  !.storage = currentTheme], currentTheme)

\* const currentTheme = localStorage.getItem('theme') || 'dark';
\* html.setAttribute('data-theme', currentTheme); updateThemeIcon(currentTheme)
ThemeSetup(s) ==
    LET currentTheme == OrElse(s.storage, "dark")
    IN  UpdateThemeIcon([s EXCEPT !.dataTheme = currentTheme], currentTheme)

\* if (themeToggle) themeToggle.addEventListener('click', ...)
ThemeListener(s, d) ==
    IF d.themeToggle THEN [s EXCEPT !.toggleListener = TRUE] ELSE s

\* variant: the toggle always selects light
NewThemeStuck(currentTheme) == "light"

\* const newTheme = currentTheme === 'dark' ? 'light' : 'dark'
NewTheme(currentTheme) == IF currentTheme = "dark" THEN "light" ELSE "dark"

\* variant: the canvas ignores the notification
UpdateCanvasThemeDropped(s, theme) == s

\* function updateCanvasTheme(theme) { canvasTheme = theme }
UpdateCanvasTheme(s, theme) == [s EXCEPT !.canvasTheme = theme]

\* variant: the click does not write localStorage
ToggleHandlerNoWrite(s) ==
    LET newTheme == NewTheme(s.dataTheme)
        s1 == [s EXCEPT !.dataTheme = newTheme]
        s2 == UpdateThemeIcon(s1, newTheme)
    IN  IF s2.updateCanvasThemeSet THEN UpdateCanvasTheme(s2, newTheme) ELSE s2

\* the click listener of #theme-toggle
ToggleHandler(s) ==
    LET newTheme == NewTheme(s.dataTheme)
        s1 == [s EXCEPT !.dataTheme = newTheme, !.storage = newTheme]
        s2 == UpdateThemeIcon(s1, newTheme)
    IN  IF s2.updateCanvasThemeSet THEN UpdateCanvasTheme(s2, newTheme) ELSE s2

----------------------------------------------------------------------------
(* Renderer *)

\* the card built for one project: a div with an <a href=link target=_blank>
\* inside and a click listener on the div
ProjectCard(project) ==
    [className |-> "project-card", title |-> project.title,
     href |-> project.link, onclick |-> TRUE]

\* the card built for one organization: a div with an <a href=link
\* target=_blank> inside; no listener is attached
OrgCard(org) ==
    [className |-> "org-card", title |-> org.title,
     href |-> org.link, onclick |-> FALSE]

\* projects.forEach(... projectsContainer.appendChild(card))
RECURSIVE AppendProjectCards(_, _)
AppendProjectCards(children, i) ==
    IF i > Len(projects) THEN children
    ELSE AppendProjectCards(Append(children, ProjectCard(projects[i])), i + 1)

\* organizations.forEach(... orgContainer.appendChild(card))
RECURSIVE AppendOrgCards(_, _)
AppendOrgCards(children, i) ==
    IF i > Len(organizations) THEN children
    ELSE AppendOrgCards(Append(children, OrgCard(organizations[i])), i + 1)

\* variant: the container is not cleared before the cards are appended
RenderProjectsNoClear(s, d) ==
    IF d.projectsContainer
    THEN [s EXCEPT !.projectsChildren = AppendProjectCards(s.projectsChildren, 1),
                   !.created.projects = Len(projects)]
    ELSE s

\* variant: no presence test; innerHTML of null throws a TypeError
RenderProjectsUnguarded(s, d) ==
    IF d.projectsContainer
    THEN [s EXCEPT !.projectsChildren = AppendProjectCards(<<>>, 1),
                   !.removed.projects = Len(s.projectsChildren),
                   !.created.projects = Len(projects)]
    ELSE [s EXCEPT !.threw = TRUE]

\* if (projectsContainer) { projectsContainer.innerHTML = ''; projects.forEach(...) }
RenderProjects(s, d) ==
    IF d.projectsContainer
    THEN [s EXCEPT !.projectsChildren = AppendProjectCards(<<>>, 1),
                   !.removed.projects = Len(s.projectsChildren),
                   !.created.projects = Len(projects)]
    ELSE s

\* if (orgContainer) { orgContainer.innerHTML = ''; organizations.forEach(...) }
RenderOrganizations(s, d) ==
    IF d.orgContainer
    THEN [s EXCEPT !.orgChildren = AppendOrgCards(<<>>, 1),
                   !.removed.organizations = Len(s.orgChildren),
                   !.created.organizations = Len(organizations)]
    ELSE s

----------------------------------------------------------------------------
(* The rest of the module script *)

\* if (cursor) { ...; animateCursor() }
InitCursor(s, d) == IF d.cursor THEN [s EXCEPT !.cursorLoop = TRUE] ELSE s

\* let canvasTheme = html.getAttribute('data-theme') || 'dark';
\* window.updateCanvasTheme = updateCanvasTheme; if (canvas) { ...; animateNetwork() }
InitCanvas(s, d) ==
    LET s1 == [s EXCEPT !.canvasTheme = OrElse(s.dataTheme, "dark"),
                        !.updateCanvasThemeSet = TRUE]
    IN  IF d.canvas THEN [s1 EXCEPT !.networkLoop = TRUE] ELSE s1

\* if (subtitle) { ...; setTimeout(() => scrambler.setText(subtitle.innerText), 1500) }
InitScramble(s, d) == IF d.subtitle THEN [s EXCEPT !.scrambleTimer = TRUE] ELSE s

\* a statement after an uncaught exception does not run
Then(s, t) == IF s.threw THEN s ELSE t

\* the module script, top to bottom
RunModule(s, d) ==
    LET s1 == ThemeListener(ThemeSetup(s), d)
        s2 == Then(s1, RenderProjects(s1, d))
        s3 == Then(s2, RenderOrganizations(s2, d))
        s4 == Then(s3, InitCursor(s3, d))
        s5 == Then(s4, InitCanvas(s4, d))
    IN  Then(s5, InitScramble(s5, d))

----------------------------------------------------------------------------
(* Card clicks *)

\* where inside a card a click may land: on the card outside its hyperlink,
\* on the hyperlink, or on a node inside the hyperlink (the svg arrow)
ClickTargets == {"body", "anchor", "insideAnchor"}

\* variant: the listener never finds the hyperlink
ClosestAnchorNever(target) == FALSE

\* e.target.closest('a') is not null
ClosestAnchor(target) == target \in {"anchor", "insideAnchor"}

\* the card's click listener: if (!e.target.closest('a')) window.open(link, '_blank')
CardListener(card, target) ==
    IF card.onclick /\ ~ClosestAnchor(target) THEN <<card.href>> ELSE <<>>

\* the default action of a click on or inside <a href target="_blank">:
\* the link opens in a new browsing context (no listener prevents it)
AnchorActivation(card, target) ==
    IF target \in {"anchor", "insideAnchor"} THEN <<card.href>> ELSE <<>>

----------------------------------------------------------------------------
(* Text scramble: markup and displayed text *)

\* Characters of the texts explored: a letter and the character that opens a tag
TextChars == {"a", "<"}

RECURSIVE TextsOfLen(_)
TextsOfLen(n) ==
    IF n = 0 THEN {<<>>}
    ELSE {Append(t, c) : t \in TextsOfLen(n - 1), c \in TextChars}

\* every text of at most n characters
TextsUpTo(n) == UNION {TextsOfLen(k) : k \in 0..n}

\* this.chars, one string per character ('\\' is one backslash; the three
\* characters after '}' are written by their code points)
chars == << "!", "<", ">", "-", "_", "\\", "/", "[", "]", "{", "}",
            "U+00E2", "U+20AC", "U+201D", "=", "+", "*", "^", "?", "#",
            "_", "_", "_", "_", "_", "_", "_", "_" >>

\* A unit of the string assigned to innerHTML: a character written as it is
\* (output += from, output += to) ...
Raw(c) == [dud |-> FALSE, c |-> c]

\* ... or a glyph wrapped as <span class="dud">c</span>
Dud(c) == [dud |-> TRUE, c |-> c]

RECURSIVE RawText(_)
RawText(t) == IF t = <<>> THEN <<>> ELSE <<Raw(Head(t))>> \o RawText(Tail(t))

IsLetter(c) == c \in {"a"}

\* el.innerText of an element whose innerHTML was set to html: the HTML
\* tokenizer run over the string, keeping character tokens and dropping tags
\* and comments. st is the tokenizer state: "data", "tagOpen" (after '<'),
\* "endTagOpen" (after '</'), "tag" (inside a start or end tag), "comment"
\* (inside '<!...' or '<?...'). The span of a Dud unit starts with '<', holds
\* a '>' that ends any tag or comment still open, and shows its glyph.
\* (Raw text in this model holds neither '-' nor white space.)
RECURSIVE Displayed(_, _, _)
Displayed(html, i, st) ==
    IF i > Len(html)
    THEN IF st = "tagOpen" THEN <<"<">>
         ELSE IF st = "endTagOpen" THEN <<"<", "/">>
         ELSE <<>>
    ELSE LET c == html[i].c IN
         IF html[i].dud
         THEN (IF st = "tagOpen" THEN <<"<">> ELSE <<>>)
              \o <<c>> \o Displayed(html, i + 1, "data")
         ELSE IF st = "data"
         THEN IF c = "<" THEN Displayed(html, i + 1, "tagOpen")
              ELSE <<c>> \o Displayed(html, i + 1, "data")
         ELSE IF st = "tagOpen"
         THEN IF IsLetter(c) THEN Displayed(html, i + 1, "tag")
              ELSE IF c = "/" THEN Displayed(html, i + 1, "endTagOpen")
              ELSE IF c \in {"!", "?"} THEN Displayed(html, i + 1, "comment")
              ELSE <<"<">> \o Displayed(html, i, "data")
         ELSE IF st = "endTagOpen"
         THEN IF IsLetter(c) THEN Displayed(html, i + 1, "tag")
              ELSE IF c = ">" THEN Displayed(html, i + 1, "data")
              ELSE Displayed(html, i + 1, "comment")
         ELSE \* "tag" or "comment": skipped up to the closing '>'
              IF c = ">" THEN Displayed(html, i + 1, "data")
              ELSE Displayed(html, i + 1, st)

\* this.el.innerText
InnerText(html) == Displayed(html, 1, "data")

----------------------------------------------------------------------------
(* Text scramble: the class *)

NoHandle == 0

\* Math.floor(Math.random() * 40): the number of values
ScrambleFrames == 40

\* the outcomes of Math.floor(Math.random() * n) that are explored: both ends
RandomInts(n) == {0, n - 1}

\* the outcomes of Math.floor(Math.random() * this.chars.length) explored
RandomCharIndex == {0, 1}

\* randomChar()
RandomChars == {chars[k + 1] : k \in RandomCharIndex}

Max(a, b) == IF a >= b THEN a ELSE b

\* oldText[i] || '' (i counts from 1 here)
CharAt(t, i) == IF i <= Len(t) THEN t[i] ELSE ""

\* variant: the queue has one slot per character of newText
BuildQueueNewOnly(oldText, newText, start, dur) ==
    [i \in 1..Len(newText) |->
        [from |-> CharAt(oldText, i), to |-> CharAt(newText, i),
         start |-> start[i], end |-> start[i] + dur[i], char |-> ""]]

\* for (i < length) this.queue.push({ from, to, start, end }); start and dur
\* are the two random draws of each slot
BuildQueue(oldText, newText, start, dur) ==
    [i \in 1..Max(Len(oldText), Len(newText)) |->
        [from |-> CharAt(oldText, i), to |-> CharAt(newText, i),
         start |-> start[i], end |-> start[i] + dur[i], char |-> ""]]

\* a handle requestAnimationFrame may return: one no outstanding request has
\* and this.frameRequest does not hold
FreshHandle(pending, held) ==
    CHOOSE h \in 1..(Cardinality(pending) + 2) :
        /\ h # held
        /\ \A p \in pending : p.handle # h
        /\ \A g \in 1..(h - 1) : g = held \/ \E p \in pending : p.handle = g

\* variant: the scheduled callback is not cancelled
CancelNothing(pending, handle) == pending

\* cancelAnimationFrame(handle)
CancelAnimationFrame(pending, handle) == {p \in pending : p.handle # handle}

\* variant: this.frame > end
SettledLate(slot, f) == f > slot.end

\* this.frame >= end
Settled(slot, f) == f >= slot.end

\* variant: a slot that has not settled draws a glyph from the first frame
ScramblingAlways(slot, f) == ~Settled(slot, f)

\* this.frame >= start (read after Settled failed)
Scrambling(slot, f) == ~Settled(slot, f) /\ f >= slot.start

\* the slots that draw a glyph in this run of update
ScramblingSlots(q, f) == {i \in 1..Len(q) : Scrambling(q[i], f)}

\* What a scrambling slot may do: keep its glyph (only when it has one and
\* Math.random() < 0.28 fails) or take a new one from randomChar().
GlyphChoices(q, f) ==
    {g \in [ScramblingSlots(q, f) -> RandomChars \cup {"keep"}] :
        \A i \in ScramblingSlots(q, f) : g[i] = "keep" => q[i].char # ""}

\* this.queue after the loop of update: the glyph is stored in the slot
QueueAfter(q, f, g) ==
    [i \in 1..Len(q) |->
        IF i \in ScramblingSlots(q, f) /\ g[i] # "keep"
        THEN [q[i] EXCEPT !.char = g[i]] ELSE q[i]]

\* the string update builds, one part per slot (an empty from or to adds nothing)
RECURSIVE Output(_, _, _)
Output(q, f, i) ==
    IF i > Len(q) THEN <<>>
    ELSE (IF Settled(q[i], f)
          THEN (IF q[i].to = "" THEN <<>> ELSE <<Raw(q[i].to)>>)
          ELSE IF Scrambling(q[i], f) THEN <<Dud(q[i].char)>>
          ELSE (IF q[i].from = "" THEN <<>> ELSE <<Raw(q[i].from)>>))
         \o Output(q, f, i + 1)

\* the branch of the loop of update a slot takes at frame f, and the
\* character it adds to the output
SlotShows(slot, f) ==
    IF Settled(slot, f) THEN [phase |-> "target", c |-> slot.to]
    ELSE IF Scrambling(slot, f) THEN [phase |-> "glyph", c |-> slot.char]
    ELSE [phase |-> "source", c |-> slot.from]

\* complete === this.queue.length
Complete(q, f) == \A i \in 1..Len(q) : Settled(q[i], f)

\* update(), run with the queue q, the frame counter f and the outstanding
\* requests pending, during setText call number call, after ran earlier runs;
\* g are its random draws
Update(q, f, pending, g, call, ran) ==
    LET q1 == QueueAfter(q, f, g)
        h  == FreshHandle(pending, frameRequest)
    IN  /\ queue' = q1
        /\ el' = Output(q1, f, 1)
        /\ updates' = ran + 1
        /\ shown' = [frame |-> f,
                     slots |-> [i \in 1..Len(q1) |-> SlotShows(q1[i], f)]]
        /\ IF Complete(q1, f)
           THEN /\ resolveCalls' = [resolveCalls EXCEPT ![call] = @ + 1]
                /\ rafPending' = pending
                /\ frame' = f
                /\ frameRequest' = frameRequest
           ELSE /\ resolveCalls' = resolveCalls
                /\ rafPending' = pending \cup {[handle |-> h, call |-> call]}
                /\ frameRequest' = h
                /\ frame' = f + 1

\* setText(newText)
SetText(newText) ==
    LET oldText == InnerText(el)
        n == Max(Len(oldText), Len(newText))
        pending == CancelAnimationFrame(rafPending, frameRequest)
    IN  /\ calls < MaxSetText
        /\ calls' = calls + 1
        /\ resolveOf' = calls + 1
        /\ lastText' = newText
        /\ cancelled' = cancelled + Cardinality(rafPending \ pending)
        /\ \E start \in [1..n -> RandomInts(ScrambleFrames)],
              dur \in [1..n -> RandomInts(ScrambleFrames)] :
              LET q == BuildQueue(oldText, newText, start, dur) IN
              \E g \in GlyphChoices(q, 0) : Update(q, 0, pending, g, calls + 1, 0)
        /\ UNCHANGED <<pageVars, netVars, cursorVars>>

\* the browser runs a scheduled callback of this.update
FrameCallback ==
    \E p \in rafPending :
        /\ \E g \in GlyphChoices(queue, frame) :
               Update(queue, frame, rafPending \ {p}, g, resolveOf, updates)
        /\ UNCHANGED <<calls, resolveOf, lastText, cancelled>>
        /\ UNCHANGED <<pageVars, netVars, cursorVars>>

\* the first setText call on the instance, with any text
SetTextFirst == calls = 0 /\ \E newText \in TextsUpTo(MaxLen) : SetText(newText)

\* The texts given to setText where calls follow one another: the empty text
\* and every text of one character. (What the element shows when a later call
\* reads it is whatever the animation has put there, glyphs included.)
ShortTexts == {<<>>, <<"a">>, <<"<">>}

\* a setText call at any moment: before, during or after an animation
SetTextAgain == \E newText \in ShortTexts : SetText(newText)

\* an instance on which setText has not been called
ScrambleFresh(html) ==
    /\ el = html
    /\ queue = <<>>
    /\ frame = 0
    /\ frameRequest = NoHandle
    /\ rafPending = {}
    /\ calls = 0
    /\ resolveOf = 0
    /\ resolveCalls = [k \in 0..MaxSetText |-> 0]
    /\ lastText = <<>>
    /\ updates = 0
    /\ cancelled = 0
    /\ shown = [frame |-> 0, slots |-> <<>>]

\* the instance while the page specification runs (its timer has not fired)
ScrambleIdle == ScrambleFresh(<<>>)

----------------------------------------------------------------------------
(* Particle canvas *)

\* Lengths are counted in twentieths of a pixel, the grid on which the
\* velocities explored below are whole numbers.
Px(n) == 20 * n

\* if (dist < 120): the threshold, in pixels
LineDistance == 120

\* window.innerWidth and window.innerHeight of the window explored, 150 x 125 pixels
WindowSize == [width |-> Px(150), height |-> Px(125)]

\* Math.random() * width, Math.random() * height: the positions explored.
\* (72, 96) is at distance exactly 120 from (0, 0), as is (120, 0).
PositionSamples == {<<0, 0>>, <<Px(120), 0>>, <<Px(72), Px(96)>>}

\* (Math.random() - 0.5) * 0.3 lies in [-0.15, 0.15): the velocities
\* explored, the same on both axes
VelocitySamples == {<<0, 0>>, <<-3, -3>>, <<2, 2>>}

\* new Particle()
NewParticles ==
    {[x |-> pos[1], y |-> pos[2], vx |-> v[1], vy |-> v[2]] :
        pos \in PositionSamples, v \in VelocitySamples}

\* variant: x is tested against the height and y against the width
ParticleUpdateWrongExtent(p, size) ==
    LET x == p.x + p.vx
        y == p.y + p.vy
    IN  [x |-> x, y |-> y,
         vx |-> IF x < 0 \/ x > size.height THEN -p.vx ELSE p.vx,
         vy |-> IF y < 0 \/ y > size.width THEN -p.vy ELSE p.vy]

\* variant: the bounds are tested before the velocity is added
ParticleUpdateTestFirst(p, size) ==
    LET vx == IF p.x < 0 \/ p.x > size.width THEN -p.vx ELSE p.vx
        vy == IF p.y < 0 \/ p.y > size.height THEN -p.vy ELSE p.vy
    IN  [x |-> p.x + vx, y |-> p.y + vy, vx |-> vx, vy |-> vy]

\* variant: a component is negated only while it points away from the canvas
ParticleUpdateInward(p, size) ==
    LET x == p.x + p.vx
        y == p.y + p.vy
    IN  [x |-> x, y |-> y,
         vx |-> IF (x < 0 /\ p.vx < 0) \/ (x > size.width /\ p.vx > 0)
                THEN -p.vx ELSE p.vx,
         vy |-> IF (y < 0 /\ p.vy < 0) \/ (y > size.height /\ p.vy > 0)
                THEN -p.vy ELSE p.vy]

\* Particle.update()
ParticleUpdate(p, size) ==
    LET x == p.x + p.vx
        y == p.y + p.vy
    IN  [x |-> x, y |-> y,
         vx |-> IF x < 0 \/ x > size.width THEN -p.vx ELSE p.vx,
         vy |-> IF y < 0 \/ y > size.height THEN -p.vy ELSE p.vy]

\* variant: dist <= d
DistAtMost(dx, dy, d) == dx * dx + dy * dy <= d * d

\* Math.sqrt(dx * dx + dy * dy) < d, for d >= 0
DistLessThan(dx, dy, d) == dx * dx + dy * dy < d * d

\* particleColor: 'rgba(0, 0, 0, 0.15)' when canvasTheme === 'light'
ParticleColor(theme) ==
    IF theme = "light" THEN "rgba(0, 0, 0, 0.15)" ELSE "rgba(255, 255, 255, 0.2)"

\* lineColor: `rgba(0, 0, 0, ${lineOpacity})` when canvasTheme === 'light',
\* without the opacity, which depends on the distance
LineColor(theme) ==
    IF theme = "light" THEN "rgba(0, 0, 0, ...)" ELSE "rgba(255, 255, 255, ...)"

\* for (let j = index + 1; j < particles.length; j++): what is examined and
\* whether the line is stroked, with the positions the two particles hold then
RECURSIVE InnerLoop(_, _, _, _)
InnerLoop(ps, theme, index, j) ==
    IF j > Len(ps) THEN <<>>
    ELSE LET p == ps[index]
             p2 == ps[j]
         IN  <<[i |-> index, j |-> j,
                from |-> <<p.x, p.y>>, to |-> <<p2.x, p2.y>>,
                line |-> DistLessThan(p.x - p2.x, p.y - p2.y, Px(LineDistance)),
                color |-> LineColor(theme)]>>
             \o InnerLoop(ps, theme, index, j + 1)

\* p.draw(): the disc, where it is drawn and its fillStyle
Draw(p, theme, index) ==
    [i |-> index, at |-> <<p.x, p.y>>, color |-> ParticleColor(theme)]

\* particles.forEach((p, index) => { p.update(); p.draw(); for (j ...) })
RECURSIVE ForEachParticle(_, _, _, _, _)
ForEachParticle(ps, size, theme, index, log) ==
    IF index > Len(ps)
    THEN [particles |-> ps, examined |-> log.examined, discs |-> log.discs]
    ELSE LET ps1 == [ps EXCEPT ![index] = ParticleUpdate(ps[index], size)]
         IN  ForEachParticle(ps1, size, theme, index + 1,
                 [examined |-> log.examined
                                   \o InnerLoop(ps1, theme, index, index + 1),
                  discs |-> Append(log.discs, Draw(ps1[index], theme, index))])

\* one run of animateNetwork
AnimateNetwork ==
    LET r == ForEachParticle(particles, canvasSize, page.canvasTheme, 1,
                             [examined |-> <<>>, discs |-> <<>>])
    IN  /\ netFrames < MaxNetFrames
        /\ netFrames' = netFrames + 1
        /\ particles' = r.particles
        /\ examined' = r.examined
        /\ discs' = r.discs
        /\ UNCHANGED <<canvasSize, resized>>
        /\ UNCHANGED <<pageVars, scrambleVars, cursorVars>>

\* a smaller window, 130 x 60 pixels
SmallSize == [width |-> Px(130), height |-> Px(60)]

\* the sizes the window takes
WindowSizes == {WindowSize, SmallSize}

\* the resize listener: width = canvas.width = window.innerWidth; height = ...
Resize ==
    /\ \E size \in WindowSizes \ {canvasSize} : canvasSize' = size
    /\ resized' = TRUE
    /\ UNCHANGED <<particles, netFrames, examined, discs>>
    /\ UNCHANGED <<pageVars, scrambleVars, cursorVars>>

\* the canvas with its particles created and no frame drawn yet
NetFresh(ps) ==
    /\ canvasSize = WindowSize
    /\ particles = ps
    /\ netFrames = 0
    /\ examined = <<>>
    /\ discs = <<>>
    /\ resized = FALSE

\* the canvas while another specification runs
NetIdle == NetFresh(<<>>)

----------------------------------------------------------------------------
(* Cursor follower *)

\* pointer events explored
MaxPointerMoves == 2

\* runs of animateCursor explored
MaxCursorFrames == 3

RECURSIVE Power(_, _)
Power(b, n) == IF n = 0 THEN 1 ELSE b * Power(b, n - 1)

\* Positions are counted in parts of a pixel fine enough for every position
\* the follower takes in MaxCursorFrames frames to be a whole number.
Sub(n) == n * Power(25, MaxCursorFrames)

\* let mouseX = -100, mouseY = -100; let cursorX = -100, cursorY = -100
OffScreen == -100

\* e.clientX, e.clientY: the pointer positions explored, in pixels
PointerSamples == {<<0, 0>>, <<10, 5>>, <<3, 10>>}

\* gsap.ticker.deltaRatio(): the frame took one or two sixtieths of a second
DeltaRatios == {1, 2}

\* Math.pow(1.0 - 0.2, r), as a fraction
RECURSIVE PowRetain(_)
PowRetain(r) ==
    IF r = 0 THEN [n |-> 1, d |-> 1]
    ELSE [n |-> 4 * PowRetain(r - 1).n, d |-> 5 * PowRetain(r - 1).d]

\* const dt = 1.0 - Math.pow(1.0 - 0.2, gsap.ticker.deltaRatio())
Dt(r) == [n |-> PowRetain(r).d - PowRetain(r).n, d |-> PowRetain(r).d]

\* the state the block starts with; placed is what gsap.set was last given
CursorFresh ==
    [mouseX |-> Sub(OffScreen), mouseY |-> Sub(OffScreen),
     cursorX |-> Sub(OffScreen), cursorY |-> Sub(OffScreen),
     isCursorInit |-> FALSE, opacity |-> "", placed |-> <<>>]

\* variant: the first event does not move the follower to the pointer
OnMouseMoveNoSnap(c, x, y) ==
    [c EXCEPT !.mouseX = x, !.mouseY = y, !.isCursorInit = TRUE, !.opacity = "1"]

\* the mousemove listener
OnMouseMove(c, x, y) ==
    LET c1 == [c EXCEPT !.mouseX = x, !.mouseY = y]
    IN  IF ~c.isCursorInit
        THEN [c1 EXCEPT !.cursorX = x, !.cursorY = y,
                        !.isCursorInit = TRUE, !.opacity = "1"]
        ELSE c1

\* cursorX += (mouseX - cursorX) * dt
Approach(from, to, dt) == from + ((to - from) * dt.n) \div dt.d

\* the body of animateCursor, in a frame whose deltaRatio is r
AnimateCursorBody(c, r) ==
    IF c.isCursorInit
    THEN LET x == Approach(c.cursorX, c.mouseX, Dt(r))
             y == Approach(c.cursorY, c.mouseY, Dt(r))
         IN  [c EXCEPT !.cursorX = x, !.cursorY = y, !.placed = <<x, y>>]
    ELSE c

MouseMove ==
    /\ page.cursorLoop
    /\ pointerMoves < MaxPointerMoves
    /\ \E pos \in PointerSamples :
           follower' = OnMouseMove(follower, Sub(pos[1]), Sub(pos[2]))
    /\ pointerMoves' = pointerMoves + 1
    /\ UNCHANGED cursorFrames
    /\ UNCHANGED <<pageVars, scrambleVars, netVars>>

AnimateCursor ==
    /\ page.cursorLoop
    /\ cursorFrames < MaxCursorFrames
    /\ \E r \in DeltaRatios : follower' = AnimateCursorBody(follower, r)
    /\ cursorFrames' = cursorFrames + 1
    /\ UNCHANGED pointerMoves
    /\ UNCHANGED <<pageVars, scrambleVars, netVars>>

\* the follower before any event or frame
CursorIdle ==
    /\ follower = CursorFresh
    /\ cursorFrames = 0
    /\ pointerMoves = 0

----------------------------------------------------------------------------
(* Actions of the page *)

Snapshot(s) == [theme |-> s.dataTheme, stored |-> s.storage]

PageInit ==
    /\ pc = "init"
    /\ dom \in DomChoices
    /\ \E stored \in StoredThemes, pch \in PriorChildren, och \in PriorChildren :
           page = InitPage(stored,
                           IF dom.projectsContainer THEN pch ELSE <<>>,
                           IF dom.orgContainer THEN och ELSE <<>>)
    /\ lastClick = NoClick
    /\ themeLog = <<>>
    /\ ScrambleIdle
    /\ NetIdle
    /\ CursorIdle

Load ==
    /\ pc = "init"
    /\ pc' = "loaded"
    /\ page' = RunModule(page, dom)
    /\ themeLog' = <<Snapshot(page')>>
    /\ UNCHANGED <<dom, lastClick>>
    /\ UNCHANGED <<scrambleVars, netVars, cursorVars>>

ToggleClick ==
    /\ pc = "loaded"
    /\ page.toggleListener
    /\ Len(themeLog) <= MaxToggles
    /\ page' = ToggleHandler(page)
    /\ themeLog' = Append(themeLog, Snapshot(page'))
    /\ UNCHANGED <<pc, dom, lastClick>>
    /\ UNCHANGED <<scrambleVars, netVars, cursorVars>>

ClickCard(table, i, target) ==
    LET children == IF table = "projects" THEN page.projectsChildren
                    ELSE page.orgChildren
    IN  /\ pc = "loaded"
        /\ i \in 1..Len(children)
        /\ children[i].className \in {"project-card", "org-card"}
        /\ lastClick' = [table |-> table, index |-> i, target |-> target,
                         viaListener |-> CardListener(children[i], target),
                         viaAnchor |-> AnchorActivation(children[i], target)]
        /\ UNCHANGED <<pc, dom, page, themeLog>>
        /\ UNCHANGED <<scrambleVars, netVars, cursorVars>>

\* the svg arrow sits inside the hyperlink of a project card only
ProjectCardClick ==
    \E i \in 1..Len(projects), t \in ClickTargets : ClickCard("projects", i, t)

OrgCardClick ==
    \E i \in 1..Len(organizations), t \in {"body", "anchor"} :
        ClickCard("organizations", i, t)

Init == PageInit

Next == Load \/ ToggleClick \/ ProjectCardClick \/ OrgCardClick

Spec == Init /\ [][Next]_vars


----------------------------------------------------------------------------
(* The text scramble on its own *)

\* the page around the instance: loaded, and left alone
PageLoaded ==
    /\ pc = "loaded"
    /\ dom = [themeToggle |-> FALSE, projectsContainer |-> FALSE,
              orgContainer |-> FALSE, cursor |-> FALSE, canvas |-> FALSE,
              subtitle |-> TRUE]
    /\ page = RunModule(InitPage(Absent, <<>>, <<>>), dom)
    /\ lastClick = NoClick
    /\ themeLog = <<>>
    /\ NetIdle
    /\ CursorIdle

\* One animation: an element showing any text, one setText call with any text.
ScrambleInit ==
    /\ PageLoaded
    /\ \E t \in TextsUpTo(MaxLen) : ScrambleFresh(RawText(t))

ScrambleNext == SetTextFirst \/ FrameCallback

SpecScramble == ScrambleInit /\ [][ScrambleNext]_vars

\* Calls that overtake one another: up to MaxSetText calls at any moments.
RaceInit ==
    /\ PageLoaded
    /\ \E t \in ShortTexts : ScrambleFresh(RawText(t))

RaceNext == SetTextAgain \/ FrameCallback

SpecRace == RaceInit /\ [][RaceNext]_vars

\* the browser eventually runs a frame callback that stays scheduled
SpecRaceFair == SpecRace /\ WF_vars(FrameCallback)

----------------------------------------------------------------------------
(* The particle canvas on its own *)

NetInit ==
    /\ pc = "loaded"
    /\ dom = [themeToggle |-> FALSE, projectsContainer |-> FALSE,
              orgContainer |-> FALSE, cursor |-> FALSE, canvas |-> TRUE,
              subtitle |-> FALSE]
    /\ page = RunModule(InitPage(Absent, <<>>, <<>>), dom)
    /\ lastClick = NoClick
    /\ themeLog = <<>>
    /\ ScrambleIdle
    /\ CursorIdle
    /\ \E ps \in [1..NumParticles -> NewParticles] : NetFresh(ps)

NetNext == AnimateNetwork \/ Resize

SpecNetwork == NetInit /\ [][NetNext]_vars

----------------------------------------------------------------------------
(* The setText call on its own *)

\* an element showing any text; setText is called once and no frame follows
SpecSetText == ScrambleInit /\ [][SetTextFirst]_vars

----------------------------------------------------------------------------
(* The particle canvas with the theme toggle *)

\* particles near one another, so that lines are drawn
ThemeParticles == {p \in NewParticles : p.x = 0 /\ p.vx >= 0}

CanvasThemeInit ==
    /\ pc = "loaded"
    /\ dom = [themeToggle |-> TRUE, projectsContainer |-> FALSE,
              orgContainer |-> FALSE, cursor |-> FALSE, canvas |-> TRUE,
              subtitle |-> FALSE]
    /\ \E stored \in StoredThemes :
           page = RunModule(InitPage(stored, <<>>, <<>>), dom)
    /\ lastClick = NoClick
    /\ themeLog = <<Snapshot(page)>>
    /\ ScrambleIdle
    /\ CursorIdle
    /\ \E ps \in [1..NumParticles -> ThemeParticles] : NetFresh(ps)

CanvasThemeNext == ToggleClick \/ AnimateNetwork

SpecCanvasTheme == CanvasThemeInit /\ [][CanvasThemeNext]_vars

----------------------------------------------------------------------------
(* The cursor follower on its own *)

CursorInit ==
    /\ pc = "loaded"
    /\ dom = [themeToggle |-> FALSE, projectsContainer |-> FALSE,
              orgContainer |-> FALSE, cursor |-> TRUE, canvas |-> FALSE,
              subtitle |-> FALSE]
    /\ page = RunModule(InitPage(Absent, <<>>, <<>>), dom)
    /\ lastClick = NoClick
    /\ themeLog = <<>>
    /\ ScrambleIdle
    /\ NetIdle
    /\ CursorIdle

CursorNext == MouseMove \/ AnimateCursor

SpecCursor == CursorInit /\ [][CursorNext]_vars

----------------------------------------------------------------------------
(* Properties of the particle canvas *)

SqDist(a, b) == (a[1] - b[1]) * (a[1] - b[1]) + (a[2] - b[2]) * (a[2] - b[2])

\* C6: in every frame each unordered pair of particles is examined exactly
\* once, and the line of a pair is drawn iff the distance between the two
\* points is strictly less than 120; at exactly 120 no line is drawn.
C6_LineIffNear ==
    netFrames >= 1 =>
        /\ \A i, j \in 1..Len(particles) :
               Cardinality({k \in 1..Len(examined) :
                               {examined[k].i, examined[k].j} = {i, j}})
                   = (IF i = j THEN 0 ELSE 1)
        /\ \A k \in 1..Len(examined) :
               /\ examined[k].from = <<particles[examined[k].i].x,
                                       particles[examined[k].i].y>>
               /\ examined[k].line <=>
                      SqDist(examined[k].from, examined[k].to)
                          < Px(120) * Px(120)
               /\ SqDist(examined[k].from, examined[k].to) = Px(120) * Px(120)
                      => ~examined[k].line

C6_Witness ==
    /\ netFrames >= 1
    /\ Len(examined) = 3
    /\ \E k \in 1..Len(examined) :
           /\ SqDist(examined[k].from, examined[k].to) = Px(120) * Px(120)
           /\ ~examined[k].line
    /\ \E k \in 1..Len(examined) :
           /\ SqDist(examined[k].from, examined[k].to) < Px(120) * Px(120)
           /\ SqDist(examined[k].from, examined[k].to)
                  > (Px(120) - 6) * (Px(120) - 6)
           /\ examined[k].line

----------------------------------------------------------------------------
(* Properties of the text scramble *)

\* the promise of the latest setText call has been resolved
Resolved == calls >= 1 /\ resolveCalls[calls] >= 1

RECURSIVE MaxEnd(_)
MaxEnd(q) == IF q = <<>> THEN 0 ELSE Max(Head(q).end, MaxEnd(Tail(q)))

\* C1: once the animation started by setText(newText) has completed, the
\* displayed text is exactly newText.
C1_FinalText == Resolved => InnerText(el) = lastText

\* C2: at most one frame callback of the instance is scheduled at any time;
\* it belongs to the latest setText call and is the one this.frameRequest
\* names, so no callback of an earlier call runs against the new queue.
C2_OnePending ==
    /\ Cardinality(rafPending) <= 1
    /\ \A p \in rafPending : p.call = calls /\ p.handle = frameRequest

C2_Witness ==
    /\ calls = 2
    /\ cancelled >= 1
    /\ Cardinality(rafPending) = 1
    /\ frame >= 1

\* C5: a setText call that no later call supersedes eventually resolves its
\* promise; it resolves in the update in which every slot has reached its end
\* frame, after at most 79 updates with the frame counter at most 78; once
\* resolved no frame callback is scheduled and the frame counter stays.
C5_Completion ==
    /\ \A k \in 1..MaxSetText :
           (calls = k) ~> (resolveCalls[k] >= 1 \/ calls > k)
    /\ [](calls >= 1 =>
            /\ updates <= 79
            /\ frame <= 78
            /\ updates = frame + (IF Resolved THEN 1 ELSE 0)
            /\ Resolved =>
                  /\ frame = MaxEnd(queue)
                  /\ \A i \in 1..Len(queue) : frame >= queue[i].end
                  /\ rafPending = {}
            /\ ~Resolved =>
                  /\ frame <= MaxEnd(queue)
                  /\ rafPending # {})
    /\ [][Resolved /\ calls' = calls =>
              frame' = frame /\ rafPending' = {} /\ updates' = updates]_vars

C5_Witness ==
    /\ Resolved
    /\ frame = 78
    /\ updates = 79
    /\ rafPending = {}
    /\ cancelled >= 1

----------------------------------------------------------------------------
(* Properties of the page *)

Themes == {"light", "dark"}

\* the step is the module script running
LoadStep == pc = "init" /\ pc' = "loaded"

\* the step is one run of the toggle's click listener
ToggleStep == pc = "loaded" /\ Len(themeLog') = Len(themeLog) + 1

\* C3 as stated: two consecutive toggle clicks return the theme state and the
\* persisted value to their original values, from every state after load
\* (the key absent included).
C3_Original ==
    \A i \in 1..(Len(themeLog) - 2) : themeLog[i + 2] = themeLog[i]

\* C3: two consecutive toggle clicks return a light or dark theme state to its
\* original value and leave the persisted value equal to that theme: that is
\* the original persisted value when it equalled the theme, and "dark" when the
\* key was absent or empty.
C3_ToggleTwice ==
    \A i \in 1..(Len(themeLog) - 2) :
        themeLog[i].theme \in Themes =>
            /\ themeLog[i + 2].theme = themeLog[i].theme
            /\ themeLog[i + 2].stored = themeLog[i].theme
            /\ (themeLog[i].stored = themeLog[i].theme
                    => themeLog[i + 2].stored = themeLog[i].stored)
            /\ (themeLog[i].stored \in {Absent, ""}
                    => themeLog[i + 2].stored = "dark")

C3_Witness ==
    /\ Len(themeLog) >= 3
    /\ themeLog[1] = [theme |-> "dark", stored |-> Absent]
    /\ themeLog[2] = [theme |-> "light", stored |-> "light"]
    /\ themeLog[3] = [theme |-> "dark", stored |-> "dark"]

\* C4: after rendering, each container that exists holds exactly one card per
\* record of its table, card i built from record i, whatever it held before.
C4_OneCardPerRecord ==
    pc = "loaded" =>
        /\ dom.projectsContainer =>
               /\ Len(page.projectsChildren) = Len(projects)
               /\ \A i \in 1..Len(projects) :
                      /\ page.projectsChildren[i].className = "project-card"
                      /\ page.projectsChildren[i].title = projects[i].title
                      /\ page.projectsChildren[i].href = projects[i].link
        /\ dom.orgContainer =>
               /\ Len(page.orgChildren) = Len(organizations)
               /\ \A i \in 1..Len(organizations) :
                      /\ page.orgChildren[i].className = "org-card"
                      /\ page.orgChildren[i].title = organizations[i].title
                      /\ page.orgChildren[i].href = organizations[i].link

C4_Witness ==
    /\ pc = "loaded"
    /\ page.removed.projects = 2
    /\ page.removed.organizations = 1
    /\ Len(page.projectsChildren) = 8
    /\ page.projectsChildren[8].title = "vibe"
    /\ Len(page.orgChildren) = 2

\* C7 as stated: at load the theme state is the persisted value when one is
\* present and dark when the key is absent, and loading writes nothing.
C7_Original ==
    [][LoadStep =>
          /\ page'.dataTheme =
                 (IF page.storage = Absent THEN "dark" ELSE page.storage)
          /\ page'.storage = page.storage]_vars

\* C7: at load the theme state is the persisted value when one is present
\* and not the empty string, and dark when the key is absent or holds the
\* empty string; loading writes nothing to persisted storage.
C7_LoadTheme ==
    [][LoadStep =>
          /\ page.storage \notin {Absent, ""} => page'.dataTheme = page.storage
          /\ page.storage \in {Absent, ""} => page'.dataTheme = "dark"
          /\ page'.storage = page.storage]_vars

C7_Witness ==
    /\ pc = "loaded"
    /\ Len(themeLog) = 1
    /\ page.storage = ""
    /\ page.dataTheme = "dark"

\* C8: every toggle click flips the theme state, writes the new value to
\* persisted storage, sets the icons for it and hands it to the canvas; after
\* one or more toggles the page theme, the persisted value and the canvas
\* theme are equal and exactly one icon shows, the moon iff the theme is light.
C8_Toggle ==
    /\ [](Len(themeLog) >= 2 =>
            /\ page.dataTheme \in Themes
            /\ page.storage = page.dataTheme
            /\ page.canvasTheme = page.dataTheme
            /\ page.moonDisplay = (IF page.dataTheme = "light" THEN "block" ELSE "none")
            /\ page.sunDisplay = (IF page.dataTheme = "light" THEN "none" ELSE "block"))
    /\ [][ToggleStep =>
            /\ page'.dataTheme # page.dataTheme
            /\ page.dataTheme = "dark" => page'.dataTheme = "light"
            /\ page.dataTheme = "light" => page'.dataTheme = "dark"
            /\ page'.storage = page'.dataTheme
            /\ page'.canvasTheme = page'.dataTheme]_vars

C8_Witness ==
    /\ Len(themeLog) >= 2
    /\ themeLog[1].theme = "dark"
    /\ page.dataTheme = "light"
    /\ page.storage = "light"
    /\ page.canvasTheme = "light"
    /\ page.moonDisplay = "block"
    /\ page.sunDisplay = "none"

\* the record a click's card was rendered from
ClickedLink ==
    IF lastClick.table = "projects" THEN projects[lastClick.index].link
    ELSE organizations[lastClick.index].link

\* a click on the body opens the link once, through the listener
OpensViaListenerOnly ==
    lastClick.viaListener = <<ClickedLink>> /\ lastClick.viaAnchor = <<>>

\* a click on or inside the hyperlink opens the link once, through the hyperlink
OpensViaAnchorOnly ==
    lastClick.viaAnchor = <<ClickedLink>> /\ lastClick.viaListener = <<>>

LaterInitRan ==
    /\ page.cursorLoop = dom.cursor
    /\ page.updateCanvasThemeSet
    /\ page.networkLoop = dom.canvas
    /\ page.scrambleTimer = dom.subtitle

\* C10: when a container is absent its table is skipped with no error and
\* no card is created for it, and the other table, the cursor, the canvas and
\* the text scramble are still set up.
C10_AbsentContainer ==
    pc = "loaded" =>
        /\ ~dom.projectsContainer =>
               /\ ~page.threw
               /\ page.created.projects = 0
               /\ page.projectsChildren = <<>>
               /\ page.created.organizations =
                      (IF dom.orgContainer THEN Len(organizations) ELSE 0)
               /\ LaterInitRan
        /\ ~dom.orgContainer =>
               /\ ~page.threw
               /\ page.created.organizations = 0
               /\ page.orgChildren = <<>>
               /\ page.created.projects =
                      (IF dom.projectsContainer THEN Len(projects) ELSE 0)
               /\ LaterInitRan

C10_Witness ==
    /\ pc = "loaded"
    /\ ~dom.projectsContainer
    /\ dom.orgContainer /\ dom.cursor /\ dom.canvas /\ dom.subtitle
    /\ page.created = [projects |-> 0, organizations |-> 2]
    /\ page.cursorLoop /\ page.networkLoop /\ page.scrambleTimer

----------------------------------------------------------------------------
(* Properties of the particles *)

Abs(n) == IF n < 0 THEN -n ELSE n

Negated(p) == [p EXCEPT !.vx = -p.vx, !.vy = -p.vy]

\* the position lies within [0, width] x [0, height]
InBounds(p, size) ==
    /\ 0 <= p.x /\ p.x <= size.width
    /\ 0 <= p.y /\ p.y <= size.height

Pos(p) == <<p.x, p.y>>

\* C13: every disc and every connecting line drawn in a frame uses, for both
\* of its particles, the position produced by that same frame's update.
C13_FreshPositions ==
    netFrames >= 1 =>
        /\ \A d \in 1..Len(discs) : discs[d].at = Pos(particles[discs[d].i])
        /\ \A k \in 1..Len(examined) :
               examined[k].line =>
                   /\ examined[k].from = Pos(particles[examined[k].i])
                   /\ examined[k].to = Pos(particles[examined[k].j])

\* the step is one run of animateNetwork
FrameStep == netFrames' = netFrames + 1

\* C16: update adds the velocity to the position and then negates a velocity
\* component iff the new position on that axis lies outside [0, extent]; the
\* magnitude of a velocity component never changes; and while the canvas size
\* is unchanged every coordinate stays within one velocity step of the bounds.
C16_Bounce ==
    /\ [][FrameStep =>
            \A i \in 1..Len(particles) :
                LET p == particles[i]
                    q == particles'[i]
                IN  /\ q.x = p.x + p.vx
                    /\ q.y = p.y + p.vy
                    /\ q.vx = IF q.x < 0 \/ q.x > canvasSize.width
                              THEN -p.vx ELSE p.vx
                    /\ q.vy = IF q.y < 0 \/ q.y > canvasSize.height
                              THEN -p.vy ELSE p.vy]_vars
    /\ [][\A i \in 1..Len(particles) :
              /\ Abs(particles'[i].vx) = Abs(particles[i].vx)
              /\ Abs(particles'[i].vy) = Abs(particles[i].vy)]_vars
    /\ [](~resized =>
            \A i \in 1..Len(particles) :
                LET p == particles[i]
                IN  /\ -Abs(p.vx) <= p.x /\ p.x <= canvasSize.width + Abs(p.vx)
                    /\ -Abs(p.vy) <= p.y /\ p.y <= canvasSize.height + Abs(p.vy))

\* a particle that has left the canvas on the left and been turned round
C16_Witness ==
    /\ ~resized
    /\ netFrames >= 2
    /\ \E i \in 1..Len(particles) :
           /\ particles[i].x = 0
           /\ particles[i].vx = 3
    /\ \E i \in 1..Len(particles) :
           /\ particles[i].x > 0
           /\ particles[i].vx = 2

\* outside the bounds on the x axis by more than one velocity step
FarX(p, size) == p.x < -Abs(p.vx) \/ p.x > size.width + Abs(p.vx)

FarY(p, size) == p.y < -Abs(p.vy) \/ p.y > size.height + Abs(p.vy)

\* outside the bounds on the x axis, as is the position one step ahead
StuckX(p, size) ==
    \/ p.x < 0 /\ p.x + p.vx < 0
    \/ p.x > size.width /\ p.x + p.vx > size.width

StuckY(p, size) ==
    \/ p.y < 0 /\ p.y + p.vy < 0
    \/ p.y > size.height /\ p.y + p.vy > size.height

\* C20: a particle outside the bounds on an axis by more than one velocity
\* step has that axis's velocity negated on every later frame, alternates
\* between two positions and stays outside while the size is unchanged.
C20_Trapped ==
    /\ [](\A i \in 1..Len(particles) :
            /\ FarX(particles[i], canvasSize) => StuckX(particles[i], canvasSize)
            /\ FarY(particles[i], canvasSize) => StuckY(particles[i], canvasSize))
    /\ [][FrameStep =>
            \A i \in 1..Len(particles) :
                LET p == particles[i]
                    q == particles'[i]
                IN  /\ StuckX(p, canvasSize) =>
                           /\ q.vx = -p.vx
                           /\ q.x = p.x + p.vx
                           /\ StuckX(q, canvasSize')
                           /\ ParticleUpdate(q, canvasSize').x = p.x
                    /\ StuckY(p, canvasSize) =>
                           /\ q.vy = -p.vy
                           /\ q.y = p.y + p.vy
                           /\ StuckY(q, canvasSize')
                           /\ ParticleUpdate(q, canvasSize').y = p.y]_vars

\* after a shrink, a particle far below the canvas whose vertical velocity
\* has been turned round (-2 comes only from negating 2)
C20_Witness ==
    /\ resized
    /\ canvasSize = SmallSize
    /\ netFrames >= 2
    /\ \E i \in 1..Len(particles) :
           /\ FarY(particles[i], canvasSize)
           /\ particles[i].vy = -2

----------------------------------------------------------------------------
(* Properties of the canvas theme *)

\* C14: in a frame that runs after a toggle click, every particle and every
\* line is drawn with the colors of the new theme, never with those of the
\* theme the click replaced.
C14_NextFrameColors ==
    [][FrameStep /\ Len(themeLog) >= 2 =>
          LET new == page.dataTheme
              old == themeLog[Len(themeLog) - 1].theme
          IN  /\ Len(discs') = Len(particles)
              /\ \A d \in 1..Len(discs') :
                     /\ discs'[d].color = ParticleColor(new)
                     /\ old \in Themes => discs'[d].color # ParticleColor(old)
              /\ \A k \in 1..Len(examined') :
                     examined'[k].line =>
                         /\ examined'[k].color = LineColor(new)
                         /\ old \in Themes =>
                                examined'[k].color # LineColor(old)]_vars

\* a frame drawn in the light colors on a page that loaded dark, and a frame
\* drawn in the dark colors after the theme has been light
C14_Witness ==
    /\ netFrames >= 1
    /\ Len(themeLog) >= 2
    /\ themeLog[Len(themeLog) - 1].theme = "dark"
    /\ page.dataTheme = "light"
    /\ discs # <<>>
    /\ \A d \in 1..Len(discs) : discs[d].color = ParticleColor("light")
    /\ \E k \in 1..Len(examined) :
           examined[k].line /\ examined[k].color = LineColor("light")

----------------------------------------------------------------------------
(* Properties of the cursor follower *)

\* c1 lies strictly between c and m (and is c when there is no distance left)
Between(c, c1, m) ==
    /\ m > c => c < c1 /\ c1 < m
    /\ m < c => m < c1 /\ c1 < c
    /\ m = c => c1 = c

\* C17: before the first pointer movement the follower stays at its
\* off-screen default in every frame; the first pointer movement sets its
\* position to the pointer's exact position; in every later frame it moves a
\* fraction strictly between 0 and 1 of the remaining distance toward the
\* latest pointer position, so it never overshoots.
C17_Follower ==
    /\ [](~follower.isCursorInit =>
            /\ pointerMoves = 0
            /\ follower.cursorX = Sub(OffScreen)
            /\ follower.cursorY = Sub(OffScreen)
            /\ follower.placed = <<>>)
    /\ [][pointerMoves' = pointerMoves + 1 =>
            IF pointerMoves = 0
            THEN /\ follower'.isCursorInit
                 /\ follower'.cursorX = follower'.mouseX
                 /\ follower'.cursorY = follower'.mouseY
            ELSE /\ follower'.cursorX = follower.cursorX
                 /\ follower'.cursorY = follower.cursorY]_vars
    /\ [][cursorFrames' = cursorFrames + 1 /\ follower.isCursorInit =>
            /\ Between(follower.cursorX, follower'.cursorX, follower.mouseX)
            /\ Between(follower.cursorY, follower'.cursorY, follower.mouseY)
            /\ follower'.placed = <<follower'.cursorX, follower'.cursorY>>
            /\ follower'.mouseX = follower.mouseX
            /\ follower'.mouseY = follower.mouseY]_vars

\* the pointer went to (0, 0) and then to (10, 5); one frame of deltaRatio 1
\* later the follower is a fifth of the way, at (2, 1)
C17_Witness ==
    /\ pointerMoves = 2
    /\ cursorFrames >= 1
    /\ follower.mouseX = Sub(10) /\ follower.mouseY = Sub(5)
    /\ follower.cursorX = Sub(2) /\ follower.cursorY = Sub(1)
    /\ follower.placed = <<Sub(2), Sub(1)>>

----------------------------------------------------------------------------
(* Properties of setText and of the slots *)

\* C12: setText builds a queue with exactly max(length of the displayed
\* text, length of newText) slots; slot i has as from the i-th displayed
\* character or empty and as to the i-th character of newText or empty; and
\* every slot has 0 <= start < 40 and start <= end <= start + 39.
C12_Queue ==
    [][calls' = calls + 1 =>
          LET oldText == InnerText(el)
              newText == lastText'
          IN  /\ Len(queue') = (IF Len(oldText) >= Len(newText)
                                THEN Len(oldText) ELSE Len(newText))
              /\ \A i \in 1..Len(queue') :
                     /\ queue'[i].from =
                            (IF i <= Len(oldText) THEN oldText[i] ELSE "")
                     /\ queue'[i].to =
                            (IF i <= Len(newText) THEN newText[i] ELSE "")
                     /\ 0 <= queue'[i].start /\ queue'[i].start < 40
                     /\ queue'[i].start <= queue'[i].end
                     /\ queue'[i].end <= queue'[i].start + 39]_vars

\* two characters shown, one given: the second slot has an empty target;
\* both ends of both random draws occur
C12_Witness ==
    /\ calls = 1
    /\ Len(lastText) = 1
    /\ Len(queue) = 2
    /\ queue[2].from # "" /\ queue[2].to = ""
    /\ queue[1].start = 39 /\ queue[1].end = 78
    /\ queue[2].start = 0 /\ queue[2].end = 0

\* the fixed scramble-character set
CharSet == {chars[k] : k \in 1..Len(chars)}

Rank(phase) == IF phase = "source" THEN 0 ELSE IF phase = "glyph" THEN 1 ELSE 2

\* C15: during one animation a slot shows its source while frame < start, a
\* glyph while start <= frame < end and its target once frame >= end, and
\* moves only forward through these; once it shows its target it shows it in
\* every later frame; a slot with start = end never shows a glyph; and every
\* glyph shown belongs to the scramble-character set and is either the one
\* of the previous frame or a new draw.
C15_Phases ==
    /\ [](/\ Len(shown.slots) = Len(queue)
          /\ \A i \in 1..Len(shown.slots) :
               LET slot == queue[i]
                   sh == shown.slots[i]
                   f == shown.frame
               IN  /\ sh.phase = "source" <=> f < slot.start /\ f < slot.end
                   /\ sh.phase = "glyph" <=> slot.start <= f /\ f < slot.end
                   /\ sh.phase = "target" <=> f >= slot.end
                   /\ sh.phase = "source" => sh.c = slot.from
                   /\ sh.phase = "target" => sh.c = slot.to
                   /\ sh.phase = "glyph" => sh.c \in CharSet
                   /\ slot.start = slot.end => sh.phase # "glyph")
    /\ [][calls' = calls /\ updates' = updates + 1 =>
            /\ shown'.frame = shown.frame + 1
            /\ \A i \in 1..Len(shown.slots) :
                   LET before == shown.slots[i]
                       after == shown'.slots[i]
                   IN  /\ Rank(after.phase) >= Rank(before.phase)
                       /\ before.phase = "target" => after = before
                       /\ after.phase = "glyph" =>
                              \/ before.phase = "glyph" /\ after.c = before.c
                              \/ after.c \in CharSet]_vars

\* a completed animation whose slot went through all three phases
C15_Witness ==
    /\ Resolved
    /\ Len(queue) = 1
    /\ queue[1].start = 39 /\ queue[1].end = 78
    /\ queue[1].char \in CharSet
    /\ shown.frame = 78
    /\ shown.slots[1].phase = "target"

\* C19: when setText is called again before the previous animation has
\* completed, the promise of the earlier call is never resolved; only the
\* promise of the latest call is resolved, and each at most once.
C19_OnlyLatest ==
    /\ [](\A k \in 1..MaxSetText : resolveCalls[k] <= 1)
    /\ [][\A k \in 0..MaxSetText :
              resolveCalls'[k] # resolveCalls[k] => k = calls']_vars
    /\ \A k \in 1..MaxSetText :
           [](calls > k /\ resolveCalls[k] = 0 => [](resolveCalls[k] = 0))

\* the first call was overtaken while its callback was scheduled; the second
\* call's animation has completed
C19_Witness ==
    /\ calls = 2
    /\ cancelled >= 1
    /\ resolveCalls[1] = 0
    /\ resolveCalls[2] = 1

----------------------------------------------------------------------------
(* The theme state as a whole *)

\* C18 as stated: in every state after load the theme attribute and the
\* persisted value are each light or dark.
C18_Original ==
    pc = "loaded" => page.dataTheme \in Themes /\ page.storage \in Themes

\* C18: after load the theme attribute is light or dark when storage held
\* nothing, the empty string, light or dark, and is the stored value itself
\* otherwise; the persisted value is what it was at load until the first
\* toggle click; after a toggle click both are light or dark and equal; and
\* no step other than a toggle click changes either.
C18_ThemeState ==
    /\ [](pc = "loaded" =>
            /\ themeLog[1].stored \in {Absent, "", "light", "dark"}
                   => page.dataTheme \in Themes
            /\ Len(themeLog) = 1 =>
                   /\ page.storage = themeLog[1].stored
                   /\ page.dataTheme = OrElse(themeLog[1].stored, "dark")
            /\ Len(themeLog) >= 2 =>
                   /\ page.dataTheme \in Themes
                   /\ page.storage = page.dataTheme)
    /\ [][~ToggleStep =>
            /\ page'.storage = page.storage
            /\ pc = "loaded" => page'.dataTheme = page.dataTheme]_vars

\* a page loaded with a foreign stored value and clicked on, and then a
\* card clicked
C18_Witness ==
    /\ pc = "loaded"
    /\ themeLog[1] = [theme |-> "system", stored |-> "system"]
    /\ Len(themeLog) >= 2
    /\ page.dataTheme \in Themes
    /\ lastClick # NoClick

====
